---- MODULE Spec2Model ----
(***************************************************************************)
(* Model of streamlit_dashboard.py: exit-flag normalisation, the three     *)
(* cached fetch functions, and the dashboard sections that aggregate the   *)
(* fetched record sets (daily summary, equity curve, P&L by symbol, latest *)
(* exits).                                                                 *)
(***************************************************************************)
EXTENDS Integers, Sequences, FiniteSets, TLC

VARIABLES
    val,              \* argument of normalize_exit_flag
    flag,             \* its result
    ledger,           \* rows of the "trades" table
    schema,           \* columns of the "trades" table
    selected_date,    \* sidebar: anchor date
    range_option,     \* sidebar: equity range
    symbol,           \* sidebar: symbol filter
    pc,               \* position of the script run
    df_trades,        \* fetch_trades(symbol, selected_date)
    df_trades_range,  \* fetch_trades_range(symbol, range_start, range_end)
    summary,          \* Daily Summary section
    curve,            \* Portfolio Equity Curve section
    pnl_by_sym,       \* P&L by Symbol section
    latest,           \* Latest 10 Exit Trades section
    shadow_logs,      \* rows of the "ml_shadow_logs" table
    now,              \* the clock, in seconds
    cache,            \* st.cache_data: the entry of every call key
    last,             \* the latest call of a cached function, or refresh
    queries,          \* per call key, the latest run of the function body
    sess,             \* per session (script thread), its call in progress
    writes            \* per call key, the latest store into the cache

flagVars == <<val, flag>>
inputVars == <<ledger, schema, selected_date, range_option>>
dashVars == <<symbol, pc, df_trades, df_trades_range, summary, curve, pnl_by_sym, latest>>
cacheVars == <<shadow_logs, now, cache, last, queries>>
sessVars == <<sess, writes>>
vars == <<flagVars, inputVars, dashVars, cacheVars, sessVars>>

(***************************************************************************)
(* Cell values.  A cell of a fetched row is a JSON scalar; every cell has  *)
(* the same record shape so that any two cells can be compared.            *)
(*   t = "null"  : None                                                    *)
(*   t = "bool"  : b                                                       *)
(*   t = "int"   : n                                                       *)
(*   t = "float" : n.0  (a float with an integral value)                   *)
(*   t = "str"   : s, a sequence of one-character strings                  *)
(***************************************************************************)
Null == [t |-> "null", b |-> FALSE, n |-> 0, s |-> <<>>]
Bool(x) == [t |-> "bool", b |-> x, n |-> 0, s |-> <<>>]
Int_(k) == [t |-> "int", b |-> FALSE, n |-> k, s |-> <<>>]
Float(k) == [t |-> "float", b |-> FALSE, n |-> k, s |-> <<>>]
Str(w) == [t |-> "str", b |-> FALSE, n |-> 0, s |-> w]

\* ---------------------------------------------------------------- text
UpperCase == <<"A","B","C","D","E","F","G","H","I","J","K","L","M",
               "N","O","P","Q","R","S","T","U","V","W","X","Y","Z">>
LowerCase == <<"a","b","c","d","e","f","g","h","i","j","k","l","m",
               "n","o","p","q","r","s","t","u","v","w","x","y","z">>

\* str.lower() on one character
LowerChar(c) ==
    IF \E i \in 1..26 : UpperCase[i] = c
    THEN LowerCase[CHOOSE i \in 1..26 : UpperCase[i] = c]
    ELSE c

\* str.lower()
Lower(w) == [i \in 1..Len(w) |-> LowerChar(w[i])]

\* the characters str.strip() removes
Whitespace == {" ", "\t", "\n", "\r"}

RECURSIVE LStrip(_)
LStrip(w) == IF w # <<>> /\ Head(w) \in Whitespace THEN LStrip(Tail(w)) ELSE w

RECURSIVE RStrip(_)
RStrip(w) ==
    IF w # <<>> /\ w[Len(w)] \in Whitespace
    THEN RStrip(SubSeq(w, 1, Len(w) - 1))
    ELSE w

\* str.strip()
Strip(w) == RStrip(LStrip(w))

DigitChar == <<"0","1","2","3","4","5","6","7","8","9">>

RECURSIVE NatText(_)
NatText(k) ==
    IF k < 10 THEN <<DigitChar[k + 1]>>
    ELSE NatText(k \div 10) \o <<DigitChar[(k % 10) + 1]>>

IntText(k) == IF k < 0 THEN <<"-">> \o NatText(-k) ELSE NatText(k)

\* Python's str() of a cell value
PyStr(v) ==
    CASE v.t = "str" -> v.s
      [] v.t = "int" -> IntText(v.n)
      [] v.t = "float" -> IntText(v.n) \o <<".", "0">>
      [] v.t = "bool" -> IF v.b THEN <<"T","r","u","e">> ELSE <<"F","a","l","s","e">>
      [] v.t = "null" -> <<"N","o","n","e">>

\* `val in [False, None]`: Python's == makes 0 and 0.0 equal to False
InFalseNone(v) ==
    \/ v.t = "null"
    \/ v.t = "bool" /\ ~v.b
    \/ v.t \in {"int", "float"} /\ v.n = 0

TruthyWords == { <<"t","r","u","e">>, <<"1">>, <<"t">>, <<"y","e","s">>, <<"y">> }

\* the same with the text compared as it is spelled, no .lower()
normalize_exit_flag_nolower(v) ==
    IF v.t = "bool" /\ v.b THEN TRUE
    ELSE IF InFalseNone(v) THEN FALSE
    ELSE Strip(PyStr(v)) \in TruthyWords

\* normalize_exit_flag(val)
normalize_exit_flag(v) ==
    IF v.t = "bool" /\ v.b THEN TRUE
    ELSE IF InFalseNone(v) THEN FALSE
    ELSE Lower(Strip(PyStr(v))) \in TruthyWords

\* ------------------------------------------------ flag inputs (bounded)
MaxLen == 3

FlagAlphabet == {"t", "T", "y", "Y", "1", "0", " ", "\n"}

RECURSIVE TextsUpTo(_)
TextsUpTo(k) ==
    IF k = 0 THEN {<<>>}
    ELSE LET shorter == TextsUpTo(k - 1)
         IN shorter \cup { Append(w, c) : w \in shorter, c \in FlagAlphabet }

LongTexts ==
    { <<"t","r","u","e">>, <<"T","R","U","E">>, <<"T","r","u","e">>,
      <<"y","e","s">>, <<"Y","E","S">>, <<"n","o">>, <<"f","a","l","s","e">>,
      <<"r","a","n","d","o","m">>, <<" ","t","r","u","e"," ">>,
      <<"y","e","s","\n">>, <<"\t","Y","e","s">>, <<"t","r"," ","u","e">>,
      <<"t","r","u","e","e">>, <<"1",".","0">>, <<"o","n">> }

FlagInputs ==
    {Null, Bool(TRUE), Bool(FALSE)}
    \cup { Int_(k) : k \in {-1, 0, 1, 2, 10} }
    \cup { Float(k) : k \in {0, 1} }
    \cup { Str(w) : w \in TextsUpTo(MaxLen) \cup LongTexts }

(***************************************************************************)
(* Rows and frames.  A row of the "trades" table has the cells             *)
(*   ts            a timestamp Int_(k) in ticks, or Null                   *)
(*   symbol        a string, or NoSymbol for None                          *)
(*   is_exit       any cell                                                *)
(*   realized_pnl  Int_(k) or Null                                         *)
(*   pnl           Int_(k) or Null                                         *)
(*   win           Bool(x) or Null                                         *)
(* A frame is a pandas DataFrame: its columns and its rows.  The cell of a *)
(* column that the frame lacks is Null in every row and is never read.     *)
(***************************************************************************)
NoSymbol == "(None)"

\* datetime ticks per calendar day
TicksPerDay == 2

\* an optional date
NoDay == [none |-> TRUE, d |-> 0]
Day(d) == [none |-> FALSE, d |-> d]

\* datetime.combine(day, dtime.min) and datetime.combine(day, dtime.max)
StartOfDay(d) == d * TicksPerDay
EndOfDay(d) == d * TicksPerDay + (TicksPerDay - 1)

\* Timestamp.date()
DateOf(k) == k \div TicksPerDay

\* pd.DataFrame() and pd.DataFrame([]): no rows and no columns
EmptyFrame == [columns |-> {}, rows |-> <<>>]

\* pd.DataFrame(data or []): the columns are the keys of the rows
Frame(cols, rows) ==
    IF rows = <<>> THEN EmptyFrame ELSE [columns |-> cols, rows |-> rows]

\* df.empty
IsEmpty(df) == df.rows = <<>> \/ df.columns = {}

\* normalize_ts: pd.to_datetime(errors="coerce") of one cell; a timestamp
\* parses to itself, anything else becomes NaT (Null)
ToDatetime(c) == IF c.t = "int" THEN c ELSE Null

normalize_ts(df) ==
    IF "ts" \in df.columns
    THEN [df EXCEPT !.rows = [i \in 1..Len(df.rows) |->
                                 [df.rows[i] EXCEPT !.ts = ToDatetime(@)]]]
    ELSE df

\* ------------------------------------------------------------- sorting
\* a timestamp cell sorts before another; NaT sorts after every timestamp
TsBefore(a, b) == a.t = "int" /\ (b.t # "int" \/ a.n < b.n)
TsAfter(a, b) == a.t = "int" /\ (b.t # "int" \/ a.n > b.n)

\* insert row r into the ascending sequence s after its equals
RECURSIVE InsertAsc(_, _)
InsertAsc(r, s) ==
    IF s = <<>> THEN <<r>>
    ELSE IF TsBefore(r.ts, Head(s).ts) THEN <<r>> \o s
    ELSE <<Head(s)>> \o InsertAsc(r, Tail(s))

RECURSIVE InsertDesc(_, _)
InsertDesc(r, s) ==
    IF s = <<>> THEN <<r>>
    ELSE IF TsAfter(r.ts, Head(s).ts) THEN <<r>> \o s
    ELSE <<Head(s)>> \o InsertDesc(r, Tail(s))

\* sort_values("ts") / order("ts", desc=False): ascending, NaT last
RECURSIVE SortAsc(_)
SortAsc(s) ==
    IF s = <<>> THEN <<>>
    ELSE InsertAsc(s[Len(s)], SortAsc(SubSeq(s, 1, Len(s) - 1)))

\* sort_values("ts", ascending=False): descending, NaT last
RECURSIVE SortDesc(_)
SortDesc(s) ==
    IF s = <<>> THEN <<>>
    ELSE InsertDesc(s[Len(s)], SortDesc(SubSeq(s, 1, Len(s) - 1)))

\* ------------------------------------------------------------- queries
\* q.eq("symbol", symbol), applied when `if symbol:` holds
MatchesSymbol(r, sym) == sym = NoSymbol \/ r.symbol = sym

\* q.gte("ts", start).lte("ts", end); a null ts satisfies no comparison
InTsRange(r, lo, hi) == r.ts.t = "int" /\ lo <= r.ts.n /\ r.ts.n <= hi

\* sb.table("trades").select("*") ... .order("ts", desc=False).execute().data
QueryDay(tbl, sym, day) ==
    SortAsc(SelectSeq(tbl, LAMBDA r :
        /\ MatchesSymbol(r, sym)
        /\ (day.none \/ InTsRange(r, StartOfDay(day.d), EndOfDay(day.d)))))

QueryRange(tbl, sym, start_day, end_day) ==
    SortAsc(SelectSeq(tbl, LAMBDA r :
        /\ MatchesSymbol(r, sym)
        /\ (start_day.none \/ end_day.none
            \/ InTsRange(r, StartOfDay(start_day.d), EndOfDay(end_day.d)))))

\* fetch_trades: the body of the cached function; ok = FALSE is the
\* `except Exception` branch, which reports with st.error and returns an
\* empty frame
fetch_trades(tbl, cols, sym, day, ok) ==
    IF ok THEN normalize_ts(Frame(cols, QueryDay(tbl, sym, day)))
    ELSE EmptyFrame

fetch_trades_range(tbl, cols, sym, start_day, end_day, ok) ==
    IF ok THEN normalize_ts(Frame(cols, QueryRange(tbl, sym, start_day, end_day)))
    ELSE EmptyFrame

\* ------------------------------------------------------------- sidebar
RangeOptions == {"1D", "1W", "1M", "3M", "All"}

\* range_start for the chosen option, anchored at the selected date
RangeStart(opt, d) ==
    CASE opt = "1D" -> Day(d)
      [] opt = "1W" -> Day(d - 6)
      [] opt = "1M" -> Day(d - 30)
      [] opt = "3M" -> Day(d - 90)
      [] OTHER -> NoDay

RangeEnd(opt, d) == IF opt \in {"1D", "1W", "1M", "3M"} THEN Day(d) ELSE NoDay

\* sorted(df["symbol"].dropna().unique()) if "symbol" in df else []
SymbolsOf(df) ==
    IF "symbol" \in df.columns
    THEN { df.rows[i].symbol : i \in 1..Len(df.rows) } \ {NoSymbol}
    ELSE {}

(***************************************************************************)
(* The sections of the page.  Each section either shows a notice           *)
(* (st.info), shows its figures, or raises.                                *)
(***************************************************************************)
BASE_EQUITY == 100000
LatestN == 10

\* every row, the exit filter left out
ExitRowsAll(df) == df.rows

\* df[df["is_exit_norm"] == True], is_exit_norm = is_exit.apply(normalize_exit_flag)
ExitRows(df) == SelectSeq(df.rows, LAMBDA r : normalize_exit_flag(r.is_exit))

\* the column "pnl" whatever the columns are
PnlColAlwaysPnl(df) == "pnl"

\* "realized_pnl" if "realized_pnl" in df.columns else "pnl"
PnlCol(df) == IF "realized_pnl" \in df.columns THEN "realized_pnl" ELSE "pnl"

\* one cell after fillna(0); sum() and cumsum() also skip a null
PnlValue(c) == IF c.t = "null" THEN 0 ELSE c.n

\* rows[col].fillna(0).sum()
RECURSIVE SumCol(_, _)
SumCol(rows, col) ==
    IF rows = <<>> THEN 0
    ELSE PnlValue(Head(rows)[col]) + SumCol(Tail(rows), col)

\* rows["win"].fillna(False).sum()
RECURSIVE SumWins(_)
SumWins(rows) ==
    IF rows = <<>> THEN 0
    ELSE (IF Head(rows).win.t = "bool" /\ Head(rows).win.b THEN 1 ELSE 0)
         + SumWins(Tail(rows))

\* a ratio num/den, den > 0
Ratio(num, den) == [num |-> num, den |-> den]

\* the rate without the guard on total_exits
WinRateNoGuard(wins, total_exits) == Ratio(wins * 100, total_exits)

\* (wins / total_exits * 100) if total_exits else 0
WinRate(wins, total_exits) ==
    IF total_exits # 0 THEN Ratio(wins * 100, total_exits) ELSE Ratio(0, 1)

NoSummary(kind) ==
    [kind |-> kind, total_exits |-> 0, total_pnl |-> 0, wins |-> 0,
     win_rate |-> Ratio(0, 1)]

\* Daily Summary
DailySummary(df) ==
    IF IsEmpty(df) THEN NoSummary("info: No trades for this date.")
    ELSE LET exits == ExitRows(df)
             pnl_col == PnlCol(df)
         IN IF pnl_col \notin df.columns THEN NoSummary("KeyError")
            ELSE LET wins == IF "win" \in df.columns THEN SumWins(exits) ELSE 0
                 IN [kind |-> "metrics",
                     total_exits |-> Len(exits),
                     total_pnl |-> SumCol(exits, pnl_col),
                     wins |-> wins,
                     win_rate |-> WinRate(wins, Len(exits))]

NoCurve(kind) == [kind |-> kind, points |-> <<>>]

Point(ts, cum) == [ts |-> ts, cum_pnl |-> cum, equity |-> BASE_EQUITY + cum]

\* curve[pnl_col].fillna(0).cumsum(), with the equity column, over sorted rows
RECURSIVE CumPoints(_, _, _)
CumPoints(rows, col, before) ==
    IF rows = <<>> THEN <<>>
    ELSE LET cum == before + PnlValue(Head(rows)[col])
         IN <<Point(Head(rows).ts, cum)>> \o CumPoints(Tail(rows), col, cum)

\* curve["ts"].min(): the earliest timestamp, NaT skipped; Null when all are NaT
MinTs(rows) ==
    LET valid == { rows[i].ts.n : i \in { j \in 1..Len(rows) : rows[j].ts.t = "int" } }
    IN IF valid = {} THEN Null
       ELSE Int_(CHOOSE k \in valid : \A m \in valid : k <= m)

\* the start anchor: the timestamps it can take, or {} when building it raises.
\* With no range start and every exit at NaT, first_ts is NaT and NaT.date()
\* is NaT, a datetime of year 1: pd.to_datetime of it raises
\* OutOfBoundsDatetime or yields year 1, depending on the pandas build.
StartAnchors(rows, range_start) ==
    IF ~range_start.none THEN {Int_(StartOfDay(range_start.d))}
    ELSE LET first_ts == MinTs(rows)
         IN IF first_ts.t = "int" THEN {Int_(StartOfDay(DateOf(first_ts.n)))}
            ELSE {Int_(StartOfDay(-730000))}

\* Portfolio Equity Curve over Range: the outcomes it can have
EquityCurve(df, range_start) ==
    IF IsEmpty(df) THEN {NoCurve("info: No trades in the selected range.")}
    ELSE LET exits_range == ExitRows(df)
             pnl_col_range == PnlCol(df)
         IN IF exits_range = <<>>
            THEN {NoCurve("info: No exit trades in the selected range.")}
            ELSE IF pnl_col_range \notin df.columns THEN {NoCurve("KeyError")}
            ELSE LET sorted == SortAsc(exits_range)
                     body == CumPoints(sorted, pnl_col_range, 0)
                 IN { [kind |-> "chart", points |-> <<Point(a, 0)>> \o body] :
                        a \in StartAnchors(sorted, range_start) }
                    \cup (IF range_start.none /\ MinTs(sorted).t # "int"
                          THEN {NoCurve("OutOfBoundsDatetime")} ELSE {})

NoTable(kind) == [kind |-> kind, table |-> {}]

\* the totals taken over every row of the symbol, exit or not
GroupBySymbolAllRows(df, exits, col) ==
    { [symbol |-> sym,
       total_pnl |-> SumCol(SelectSeq(df.rows, LAMBDA r : r.symbol = sym), col)] :
      sym \in { exits[i].symbol : i \in 1..Len(exits) } \ {NoSymbol} }

\* exits.groupby("symbol")[pnl_col].sum().reset_index(): one row per
\* non-null symbol of the exits, a null P&L adding nothing
GroupBySymbol(df, exits, col) ==
    { [symbol |-> sym,
       total_pnl |-> SumCol(SelectSeq(exits, LAMBDA r : r.symbol = sym), col)] :
      sym \in { exits[i].symbol : i \in 1..Len(exits) } \ {NoSymbol} }

\* P&L by Symbol (Day)
PnlBySymbol(df) ==
    IF IsEmpty(df) THEN NoTable("info: No trades for this date.")
    ELSE LET exits == ExitRows(df)
             pnl_col == PnlCol(df)
         IN IF exits = <<>> THEN NoTable("info: No exit trades for this date.")
            ELSE IF pnl_col \notin df.columns THEN NoTable("KeyError")
            ELSE [kind |-> "chart", table |-> GroupBySymbol(df, exits, pnl_col)]

NoLatest(kind) == [kind |-> kind, rows |-> <<>>]

\* df.head(n)
HeadRows(rows, n) == SubSeq(rows, 1, IF Len(rows) < n THEN Len(rows) ELSE n)

\* Latest 10 Exit Trades (Global), given df_all = fetch_trades(None, None)
LatestExits(df_all) ==
    IF "is_exit" \notin df_all.columns THEN NoLatest("KeyError")
    ELSE LET pnl_col_global == PnlCol(df_all)
         IN IF pnl_col_global \notin df_all.columns THEN NoLatest("KeyError")
            ELSE LET df_exits ==
                         SelectSeq(df_all.rows, LAMBDA r :
                             /\ normalize_exit_flag(r.is_exit)
                             /\ r[pnl_col_global].t # "null")
                 IN IF df_exits = <<>>
                    THEN NoLatest("info: No exit trades available.")
                    ELSE [kind |-> "table",
                          rows |-> HeadRows(SortDesc(df_exits), LatestN)]

(***************************************************************************)
(* The cache of the three fetch functions (@st.cache_data(ttl=10)).  A     *)
(* call is keyed by the function and its arguments; an entry holds the     *)
(* value the body returned and the time it was stored.                     *)
(***************************************************************************)
TTL == 10

\* fetch_shadow: as fetch_trades, over the table "ml_shadow_logs"
fetch_shadow(tbl, cols, sym, day, ok) ==
    IF ok THEN normalize_ts(Frame(cols, QueryDay(tbl, sym, day)))
    ELSE EmptyFrame

CallKey(fn, sym, a, b) == [fn |-> fn, sym |-> sym, a |-> a, b |-> b]

\* the calls the script makes for symbol "(All)", date 0, range "1D"
CacheKeys ==
    { CallKey("fetch_trades", NoSymbol, Day(0), NoDay),
      CallKey("fetch_trades_range", NoSymbol, Day(0), Day(0)),
      CallKey("fetch_shadow", NoSymbol, Day(0), NoDay) }

ShadowCols == {"ts", "symbol", "ml_direction"}

\* the body of the cached function of key k; ok = FALSE when the query raises
FetchBody(k, trades, cols, shadow, ok) ==
    CASE k.fn = "fetch_trades" -> fetch_trades(trades, cols, k.sym, k.a, ok)
      [] k.fn = "fetch_trades_range" -> fetch_trades_range(trades, cols, k.sym, k.a, k.b, ok)
      [] k.fn = "fetch_shadow" -> fetch_shadow(shadow, ShadowCols, k.sym, k.a, ok)

NoEntry == [present |-> FALSE, value |-> EmptyFrame, at |-> 0]
Entry(value, t) == [present |-> TRUE, value |-> value, at |-> t]

\* an entry served up to and including the age TTL
IsFreshInclusive(e, t) == e.present /\ t - e.at <= TTL

\* an entry is served while its age is under the TTL
IsFresh(e, t) == e.present /\ t - e.at < TTL

\* the entries after the body of key k returned value at time t
Store(c, k, value, t) == [c EXCEPT ![k] = Entry(value, t)]

\* st.cache_data.clear()
Clear(c) == [k \in DOMAIN c |-> NoEntry]

NoQuery == [some |-> FALSE, at |-> 0, failed |-> FALSE, cleared |-> FALSE]

NoCall ==
    [kind |-> "none", key |-> CallKey("none", NoSymbol, NoDay, NoDay), at |-> 0,
     queried |-> FALSE, failed |-> FALSE, raised |-> FALSE, st_error |-> FALSE,
     returned |-> EmptyFrame, before |-> NoEntry, prev |-> NoQuery]

CacheIdle ==
    /\ shadow_logs = <<>>
    /\ now = 0
    /\ cache = [k \in CacheKeys |-> NoEntry]
    /\ last = NoCall
    /\ queries = [k \in CacheKeys |-> NoQuery]

\* --- sessions: every browser session runs the script in a thread of its
\* own, and all of them share the cache
Sessions == {1, 2}

NoWrite == [some |-> FALSE, value |-> EmptyFrame]

SessionIdle ==
    [pc |-> "idle", key |-> CallKey("none", NoSymbol, NoDay, NoDay), value |-> EmptyFrame,
     failed |-> FALSE, held |-> [frame |-> EmptyFrame, shared |-> FALSE],
     observed |-> [some |-> FALSE, frame |-> EmptyFrame, queried |-> FALSE]]

SessIdle ==
    /\ sess = [s \in Sessions |-> SessionIdle]
    /\ writes = [k \in CacheKeys |-> NoWrite]

(***************************************************************************)
(* One run of the script over the current ledger.  The ledger answers      *)
(* every query of the run; the failure branch of the fetch functions is    *)
(* taken in the cache specification below.                                 *)
(***************************************************************************)
Pending == "pending"

DashIdle ==
    /\ symbol = NoSymbol
    /\ pc = "sidebar"
    /\ df_trades = EmptyFrame
    /\ df_trades_range = EmptyFrame
    /\ summary = NoSummary(Pending)
    /\ curve = NoCurve(Pending)
    /\ pnl_by_sym = NoTable(Pending)
    /\ latest = NoLatest(Pending)

\* the symbol selectbox: "(All)" or a symbol traded on the selected date
SelectSymbol ==
    /\ pc = "sidebar"
    /\ LET df_for_symbols == fetch_trades(ledger, schema, NoSymbol, Day(selected_date), TRUE)
       IN \E sym \in {NoSymbol} \cup SymbolsOf(df_for_symbols) : symbol' = sym
    /\ pc' = "load"
    /\ UNCHANGED <<flagVars, sessVars, inputVars, cacheVars, df_trades, df_trades_range,
                   summary, curve, pnl_by_sym, latest>>

\* Load Data
LoadData ==
    /\ pc = "load"
    /\ df_trades' = fetch_trades(ledger, schema, symbol, Day(selected_date), TRUE)
    /\ df_trades_range' =
           fetch_trades_range(ledger, schema, symbol,
                              RangeStart(range_option, selected_date),
                              RangeEnd(range_option, selected_date), TRUE)
    /\ pc' = "summary"
    /\ UNCHANGED <<flagVars, sessVars, inputVars, cacheVars, symbol, summary, curve, pnl_by_sym, latest>>

ShowDailySummary ==
    /\ pc = "summary"
    /\ summary' = DailySummary(df_trades)
    /\ pc' = IF summary'.kind = "KeyError" THEN "raised" ELSE "curve"
    /\ UNCHANGED <<flagVars, sessVars, inputVars, cacheVars, symbol, df_trades, df_trades_range,
                   curve, pnl_by_sym, latest>>

ShowEquityCurve ==
    /\ pc = "curve"
    /\ curve' \in EquityCurve(df_trades_range, RangeStart(range_option, selected_date))
    /\ pc' = IF curve'.kind \in {"KeyError", "OutOfBoundsDatetime"} THEN "raised"
             ELSE "by_symbol"
    /\ UNCHANGED <<flagVars, sessVars, inputVars, cacheVars, symbol, df_trades, df_trades_range,
                   summary, pnl_by_sym, latest>>

ShowPnlBySymbol ==
    /\ pc = "by_symbol"
    /\ pnl_by_sym' = PnlBySymbol(df_trades)
    /\ pc' = IF pnl_by_sym'.kind = "KeyError" THEN "raised" ELSE "latest"
    /\ UNCHANGED <<flagVars, sessVars, inputVars, cacheVars, symbol, df_trades, df_trades_range,
                   summary, curve, latest>>

ShowLatestExits ==
    /\ pc = "latest"
    /\ latest' = LatestExits(fetch_trades(ledger, schema, NoSymbol, NoDay, TRUE))
    /\ pc' = IF latest'.kind = "KeyError" THEN "raised" ELSE "done"
    /\ UNCHANGED <<flagVars, sessVars, inputVars, cacheVars, symbol, df_trades, df_trades_range,
                   summary, curve, pnl_by_sym>>

NextDash ==
    \/ SelectSymbol
    \/ LoadData
    \/ ShowDailySummary
    \/ ShowEquityCurve
    \/ ShowPnlBySymbol
    \/ ShowLatestExits

(***************************************************************************)
(* Ledgers.  The specifications below run the same script over different   *)
(* families of ledgers, each varying the cells its sections read.          *)
(***************************************************************************)
MaxRows == 3

Row(ts, sym, ex, rp, p, w) ==
    [ts |-> ts, symbol |-> sym, is_exit |-> ex, realized_pnl |-> rp, pnl |-> p, win |-> w]

SeqsUpTo(S, n) == UNION { [1..k -> S] : k \in 0..n }

BaseCols == {"ts", "symbol", "is_exit"}

\* what is outside the script run
FlagIdle == val = Null /\ flag = [set |-> FALSE, v |-> FALSE]

\* --- rows that differ in exit flag, P&L and win
SummaryRows ==
    { Row(Int_(0), "A", Str(<<"Y">>), rp, Null, w) :
        rp \in {Null, Int_(100), Int_(-40)},
        w \in {Bool(TRUE), Bool(FALSE), Null} }
    \cup { Row(Int_(0), "A", Bool(FALSE), Int_(100), Null, Bool(TRUE)),
           Row(Int_(0), "A", Str(<<"n","o">>), Null, Null, Null) }

InitSummary ==
    /\ FlagIdle /\ DashIdle /\ SessIdle /\ CacheIdle
    /\ schema \in { BaseCols \cup {"realized_pnl", "win"}, BaseCols \cup {"realized_pnl"} }
    /\ ledger \in SeqsUpTo(SummaryRows, MaxRows)
    /\ "win" \notin schema => \A i \in 1..Len(ledger) : ledger[i].win = Null
    /\ selected_date = 0
    /\ range_option = "1D"

SpecSummary == InitSummary /\ [][NextDash]_vars

\* --- rows that differ in the two P&L columns
ColumnRows ==
    { Row(Int_(0), "A", ex, rp, p, Null) :
        ex \in {Bool(TRUE), Bool(FALSE)},
        rp \in {Null, Int_(100)},
        p \in {Null, Int_(7)} }

InitColumns ==
    /\ FlagIdle /\ DashIdle /\ SessIdle /\ CacheIdle
    /\ schema \in { BaseCols \cup {"realized_pnl", "pnl"}, BaseCols \cup {"realized_pnl"},
                    BaseCols \cup {"pnl"} }
    /\ ledger \in SeqsUpTo(ColumnRows, MaxRows)
    /\ "realized_pnl" \notin schema => \A i \in 1..Len(ledger) : ledger[i].realized_pnl = Null
    /\ "pnl" \notin schema => \A i \in 1..Len(ledger) : ledger[i].pnl = Null
    /\ selected_date = 0
    /\ range_option \in {"1D", "All"}

SpecColumns == InitColumns /\ [][NextDash]_vars

\* --- rows that differ in symbol
SymbolRows ==
    { Row(Int_(0), sym, ex, rp, Null, Null) :
        sym \in {"A", "B"},
        ex \in {Str(<<"1">>), Str(<<"n","o">>)},
        rp \in {Null, Int_(100), Int_(-40)} }
    \cup { Row(Int_(0), NoSymbol, Bool(TRUE), Int_(100), Null, Null) }

InitSymbols ==
    /\ FlagIdle /\ DashIdle /\ SessIdle /\ CacheIdle
    /\ schema = BaseCols \cup {"realized_pnl"}
    /\ ledger \in SeqsUpTo(SymbolRows, MaxRows)
    /\ selected_date = 0
    /\ range_option = "1M"

SpecSymbols == InitSymbols /\ [][NextDash]_vars

\* --- rows that differ in timestamp: two instants of day 0, the start of
\* day 1, and no timestamp; the table is kept in the order of the query
CurveRows ==
    { Row(ts, "A", ex, rp, Null, Null) :
        ts \in {Int_(0), Int_(1), Int_(StartOfDay(1)), Null},
        ex \in {Bool(TRUE), Int_(0)},
        rp \in {Null, Int_(-40)} }

InitCurve ==
    /\ FlagIdle /\ DashIdle /\ SessIdle /\ CacheIdle
    /\ schema = BaseCols \cup {"realized_pnl"}
    /\ ledger \in SeqsUpTo(CurveRows, MaxRows)
    /\ SortAsc(ledger) = ledger
    /\ selected_date = 1
    /\ range_option \in RangeOptions

SpecCurve == InitCurve /\ [][NextDash]_vars

\* --- long ledgers: more exits than the latest-exits table shows, one per
\* tick, each with or without a P&L
MaxLedger == 11

LongLedgers ==
    UNION { { [i \in 1..k |-> Row(Int_(i - 1), "A", Bool(TRUE), rp[i], Null, Null)] :
                rp \in [1..k -> {Null, Int_(5)}] } : k \in 0..MaxLedger }

InitLatest ==
    /\ FlagIdle /\ DashIdle /\ SessIdle /\ CacheIdle
    /\ schema = BaseCols \cup {"realized_pnl"}
    /\ ledger \in LongLedgers
    /\ selected_date = 0
    /\ range_option = "3M"

SpecLatest == InitLatest /\ [][NextDash]_vars

(***************************************************************************)
(* What the claims expect of a section, stated over the rows it was given. *)
(***************************************************************************)
\* positions of the exit rows of a frame
ExitIdx(df) == { i \in 1..Len(df.rows) : normalize_exit_flag(df.rows[i].is_exit) }

\* the P&L column of a record set: realizedPnl when it has that column
ClaimPnlColumn(df) == IF "realized_pnl" \in df.columns THEN "realized_pnl" ELSE "pnl"

\* sum of column col over the rows at positions I, a null counting 0
RECURSIVE SumAt(_, _, _)
SumAt(df, I, col) ==
    IF I = {} THEN 0
    ELSE LET i == CHOOSE j \in I : TRUE
             c == df.rows[i][col]
         IN (IF c.t = "int" THEN c.n ELSE 0) + SumAt(df, I \ {i}, col)

WinIdx(df) == { i \in ExitIdx(df) : df.rows[i].win = Bool(TRUE) }

\* the figures C4 states for a record set
SummaryFigures(df) ==
    /\ summary.kind = "metrics"
    /\ summary.total_exits = Cardinality(ExitIdx(df))
    /\ summary.total_pnl = SumAt(df, ExitIdx(df), ClaimPnlColumn(df))
    /\ summary.wins = Cardinality(WinIdx(df))
    /\ summary.win_rate.den > 0
    /\ IF Cardinality(ExitIdx(df)) > 0
       THEN summary.win_rate.num * Cardinality(ExitIdx(df))
                = Cardinality(WinIdx(df)) * 100 * summary.win_rate.den
       ELSE summary.win_rate.num = 0

WholeLedger == Frame(schema, [i \in 1..Len(ledger) |-> [ledger[i] EXCEPT !.ts = ToDatetime(@)]])

\* positions of the rows the latest-exits table may show
QualifyingIdx(df) ==
    { i \in ExitIdx(df) : df.rows[i][ClaimPnlColumn(df)].t # "null" }

\* C8: within one section every row contributes through the same P&L column,
\* realized_pnl when the record set has it and pnl otherwise: the daily total,
\* each symbol's total, the last cumulative P&L of the curve and the rows of
\* the latest-exits table are those of that one column, never a per-row mix,
\* and a record set with pnl but no realized_pnl is aggregated on pnl.
C8_OneColumn ==
    /\ summary.kind \notin {Pending, "metrics"} => IsEmpty(df_trades)
    /\ summary.kind = "metrics" =>
           summary.total_pnl = SumAt(df_trades, ExitIdx(df_trades), ClaimPnlColumn(df_trades))
    /\ pnl_by_sym.kind # "KeyError"
    /\ \A g \in pnl_by_sym.table :
           g.total_pnl =
               SumAt(df_trades, { i \in ExitIdx(df_trades) : df_trades.rows[i].symbol = g.symbol },
                     ClaimPnlColumn(df_trades))
    /\ curve.kind # "KeyError"
    /\ curve.kind = "chart" =>
           curve.points[Len(curve.points)].cum_pnl =
               SumAt(df_trades_range, ExitIdx(df_trades_range), ClaimPnlColumn(df_trades_range))
    /\ latest.kind = "table" /\ Cardinality(QualifyingIdx(WholeLedger)) <= LatestN =>
           /\ Len(latest.rows) = Cardinality(QualifyingIdx(WholeLedger))
           /\ \A k \in 1..Len(latest.rows) :
                  latest.rows[k][ClaimPnlColumn(WholeLedger)].t # "null"

C8_Witness ==
    /\ pc = "done"
    /\ schema = BaseCols \cup {"realized_pnl", "pnl"}
    /\ \E i, j \in ExitIdx(df_trades) :
           /\ df_trades.rows[i].realized_pnl = Null /\ df_trades.rows[i].pnl = Int_(7)
           /\ df_trades.rows[j].realized_pnl = Int_(100) /\ df_trades.rows[j].pnl = Null
    /\ summary.total_pnl = 100
    /\ latest.kind = "table" /\ Len(latest.rows) = 1

\* C9: the P&L-by-symbol mapping has exactly the symbols of the day's exit
\* rows as keys, each with the sum of the P&L column over that symbol's exit
\* rows; non-exit rows add nothing, and with no symbol among the exits the
\* mapping is empty and nothing is raised.
C9_BySymbol ==
    pnl_by_sym.kind # Pending =>
        LET keys == { df_trades.rows[i].symbol : i \in ExitIdx(df_trades) } \ {NoSymbol}
        IN /\ pnl_by_sym.kind # "KeyError"
           /\ { g.symbol : g \in pnl_by_sym.table } = keys
           /\ Cardinality(pnl_by_sym.table) = Cardinality(keys)
           /\ \A g \in pnl_by_sym.table :
                  g.total_pnl =
                      SumAt(df_trades,
                            { i \in ExitIdx(df_trades) : df_trades.rows[i].symbol = g.symbol },
                            ClaimPnlColumn(df_trades))

C9_Witness ==
    /\ pnl_by_sym.kind = "chart"
    /\ pnl_by_sym.table = { [symbol |-> "A", total_pnl |-> 60] }
    /\ \E i \in 1..Len(df_trades.rows) :
           df_trades.rows[i].symbol = "B" /\ df_trades.rows[i].realized_pnl = Int_(100)

AscendingOrders(df) ==
    LET I == ExitIdx(df)
        n == Cardinality(I)
    IN { f \in [1..n -> I] :
           /\ \A a, b \in 1..n : a # b => f[a] # f[b]
           /\ \A a, b \in 1..n :
                  a < b => /\ df.rows[f[a]].ts.t = "int"
                           /\ df.rows[f[b]].ts.t = "int"
                           /\ df.rows[f[a]].ts.n <= df.rows[f[b]].ts.n }

\* the anchor timestamp C6 states
ClaimAnchor(df) ==
    IF range_option # "All"
    THEN Int_(StartOfDay(RangeStart(range_option, selected_date).d))
    ELSE LET valid == { df.rows[i].ts.n : i \in { j \in ExitIdx(df) : df.rows[j].ts.t = "int" } }
         IN IF valid = {} THEN Null
            ELSE Int_(StartOfDay(DateOf(CHOOSE k \in valid : \A m \in valid : k <= m)))

\* C6 as stated: the curve of a range with exits is the anchor (start of the
\* range's first day, or of the earliest exit's day for an open range, with
\* cumulative P&L 0 and equity = base), then one point per exit carrying the
\* running sum of the P&L column in ascending timestamp order; every point
\* has equity = base + cumulative P&L and the timestamps never decrease.
C6_Original ==
    curve.kind # Pending /\ ExitIdx(df_trades_range) # {} =>
        LET df == df_trades_range
            n == Cardinality(ExitIdx(df))
            pts == curve.points
        IN /\ curve.kind = "chart"
           /\ Len(pts) = n + 1
           /\ pts[1].ts.t = "int" /\ pts[1].ts = ClaimAnchor(df)
           /\ pts[1].cum_pnl = 0
           /\ \A k \in 1..Len(pts) : pts[k].equity = BASE_EQUITY + pts[k].cum_pnl
           /\ \A k \in 1..Len(pts) : pts[k].ts.t = "int"
           /\ \A k \in 1..(Len(pts) - 1) : pts[k].ts.n <= pts[k + 1].ts.n
           /\ \E f \in AscendingOrders(df) :
                  \A k \in 1..n :
                      /\ pts[k + 1].ts = df.rows[f[k]].ts
                      /\ pts[k + 1].cum_pnl =
                             pts[k].cum_pnl
                             + (IF df.rows[f[k]][ClaimPnlColumn(df)].t = "int"
                                THEN df.rows[f[k]][ClaimPnlColumn(df)].n ELSE 0)

\* C6 holds of the ranges whose exits all have a timestamp
C6_WithTimestamps ==
    (\A i \in ExitIdx(df_trades_range) : df_trades_range.rows[i].ts.t = "int") => C6_Original

Min(a, b) == IF a < b THEN a ELSE b

\* C7 as stated: the latest-exits table has min(n, q) rows, q the number of
\* rows of the whole ledger with a true normalized exit flag and a non-null
\* P&L; each is such a row, they are in descending timestamp order, and no
\* qualifying row left out is later than a row shown.
C7_Original ==
    latest.kind # Pending =>
        LET df == WholeLedger
            Q == QualifyingIdx(df)
            shown == latest.rows
            InShown(r) == Cardinality({ a \in 1..Len(shown) : shown[a] = r })
            InLedger(r) == Cardinality({ i \in Q : df.rows[i] = r })
        IN /\ latest.kind # "KeyError"
           /\ Len(shown) = Min(LatestN, Cardinality(Q))
           /\ \A a \in 1..Len(shown) : InShown(shown[a]) <= InLedger(shown[a])
           /\ \A i \in Q : InShown(df.rows[i]) < InLedger(df.rows[i]) =>
                  \A a \in 1..Len(shown) :
                      ~(/\ df.rows[i].ts.t = "int" /\ shown[a].ts.t = "int"
                        /\ df.rows[i].ts.n > shown[a].ts.n)
           /\ \A a \in 1..(Len(shown) - 1) :
                  /\ shown[a].ts.t = "int" /\ shown[a + 1].ts.t = "int"
                  /\ shown[a].ts.n >= shown[a + 1].ts.n

\* C7 holds of every ledger that has a row and no exit without a timestamp
C7_LedgerWithRows ==
    ledger # <<>> /\ (\A i \in QualifyingIdx(WholeLedger) : WholeLedger.rows[i].ts.t = "int")
        => C7_Original

(***************************************************************************)
(* normalize_exit_flag on its own, over the bounded cell values.           *)
(***************************************************************************)
InputIdle ==
    /\ ledger = <<>>
    /\ schema = BaseCols
    /\ selected_date = 0
    /\ range_option = "1D"

InitFlag ==
    /\ val \in FlagInputs
    /\ flag = [set |-> FALSE, v |-> FALSE]
    /\ InputIdle /\ DashIdle /\ SessIdle /\ CacheIdle

Normalize ==
    /\ ~flag.set
    /\ flag' = [set |-> TRUE, v |-> normalize_exit_flag(val)]
    /\ UNCHANGED <<val, inputVars, dashVars, cacheVars, sessVars>>

NextFlag == Normalize

SpecFlag == InitFlag /\ [][NextFlag]_vars

\* text w spells word in some mix of upper and lower case
SpellsIgnoringCase(w, word) ==
    /\ Len(w) = Len(word)
    /\ \A i \in 1..Len(w) :
           \/ w[i] = word[i]
           \/ \E k \in 1..26 : LowerCase[k] = word[i] /\ UpperCase[k] = w[i]

\* text w is a truthy word in any case
IsTruthyText(w) == \E word \in TruthyWords : SpellsIgnoringCase(w, word)

\* text w is a truthy word in any case between runs of whitespace
IsPaddedTruthyText(w) ==
    \E i, j \in 0..Len(w) :
        /\ i <= j
        /\ \A k \in 1..i : w[k] \in Whitespace
        /\ \A k \in (j + 1)..Len(w) : w[k] \in Whitespace
        /\ IsTruthyText(SubSeq(w, i + 1, j))

\* the inputs the specification lists with their results
ListedTrue ==
    { Bool(TRUE), Str(<<"t","r","u","e">>), Str(<<"T","R","U","E">>), Str(<<"1">>), Int_(1),
      Str(<<"y","e","s">>), Str(<<"Y">>), Str(<<"t">>) }

ListedFalse ==
    { Bool(FALSE), Null, Str(<<>>), Str(<<"0">>), Str(<<"n","o">>), Int_(0),
      Str(<<"r","a","n","d","o","m">>) }

\* C3 as stated: the result is true exactly for boolean true and for a value
\* whose case-folded textual form is one of true, 1, t, yes, y.
C3_Original ==
    flag.set =>
        /\ flag.v = (val = Bool(TRUE) \/ IsTruthyText(PyStr(val)))
        /\ val \in ListedTrue => flag.v
        /\ val \in ListedFalse => ~flag.v

\* C3 (amended): the result is true exactly for boolean true and for a value
\* whose textual form, with leading and trailing whitespace removed and then
\* case-folded, is one of true, 1, t, yes, y, and false for everything else;
\* the listed inputs map as stated.
C3_Normalization ==
    flag.set =>
        /\ flag.v = (val = Bool(TRUE) \/ IsPaddedTruthyText(PyStr(val)))
        /\ val \in ListedTrue => flag.v
        /\ val \in ListedFalse => ~flag.v

C3_Witness ==
    /\ flag.set
    /\ val = Str(<<" ", "Y", "\n">>)
    /\ flag.v

(***************************************************************************)
(* The cached fetch functions over time: calls, clock ticks, Force Refresh *)
(* and rows appended to the tables by the trading bot.                     *)
(***************************************************************************)
\* the clock advances by half a TTL at a time
TickStep == TTL \div 2
MaxTicks == 2
MaxAppends == 1

TradeRow == Row(Int_(0), "A", Bool(TRUE), Int_(100), Null, Null)
ShadowRow == [ts |-> Int_(1), symbol |-> "A", ml_direction |-> "LONG"]

InitCache ==
    /\ FlagIdle /\ DashIdle /\ SessIdle
    /\ shadow_logs = <<ShadowRow>>
    /\ now = 0
    /\ cache = [k \in CacheKeys |-> NoEntry]
    /\ last = NoCall
    /\ queries = [k \in CacheKeys |-> NoQuery]
    /\ ledger = <<>>
    /\ schema = BaseCols \cup {"realized_pnl"}
    /\ selected_date = 0
    /\ range_option = "1D"

\* a call of a cached function: served from its entry while fresh, else the
\* body runs (the query succeeding or raising) and its return value is stored
Call(k) ==
    /\ IF IsFresh(cache[k], now)
       THEN /\ last' = [kind |-> "call", key |-> k, at |-> now, queried |-> FALSE,
                        failed |-> FALSE, raised |-> FALSE, st_error |-> FALSE,
                        returned |-> cache[k].value, before |-> cache[k],
                        prev |-> queries[k]]
            /\ UNCHANGED <<cache, queries>>
       ELSE \E ok \in BOOLEAN :
               LET value == FetchBody(k, ledger, schema, shadow_logs, ok)
               IN /\ cache' = Store(cache, k, value, now)
                  /\ last' = [kind |-> "call", key |-> k, at |-> now, queried |-> TRUE,
                              failed |-> ~ok, raised |-> FALSE, st_error |-> ~ok,
                              returned |-> value, before |-> cache[k],
                              prev |-> queries[k]]
                  /\ queries' = [queries EXCEPT ![k] =
                                    [some |-> TRUE, at |-> now, failed |-> ~ok,
                                     cleared |-> FALSE]]
    /\ UNCHANGED <<flagVars, sessVars, inputVars, dashVars, shadow_logs, now>>

CallCached == \E k \in CacheKeys : Call(k)

\* the Force Refresh button
ForceRefresh ==
    /\ cache' = Clear(cache)
    /\ last' = [NoCall EXCEPT !.kind = "refresh"]
    /\ queries' = [k \in CacheKeys |-> [queries[k] EXCEPT !.cleared = TRUE]]
    /\ UNCHANGED <<flagVars, sessVars, inputVars, dashVars, shadow_logs, now>>

Tick ==
    /\ now + TickStep <= MaxTicks * TickStep
    /\ now' = now + TickStep
    /\ UNCHANGED <<flagVars, sessVars, inputVars, dashVars, shadow_logs, cache, last, queries>>

AppendTrade ==
    /\ Len(ledger) < MaxAppends
    /\ ledger' = Append(ledger, TradeRow)
    /\ UNCHANGED <<flagVars, sessVars, schema, selected_date, range_option, dashVars, cacheVars>>

NextCache ==
    \/ CallCached
    \/ ForceRefresh
    \/ Tick
    \/ AppendTrade

SpecCache == InitCache /\ [][NextCache]_vars

\* C1 as stated: when the ledger query of a cached fetch raises, the caller
\* gets a failure and not a record set, the entry of the call key is what it
\* was before the call, and the next call of that key runs the query again
\* instead of being served the failed call's result.
C1_Original ==
    last.kind = "call" =>
        /\ last.failed => last.raised /\ cache[last.key] = last.before
        /\ last.prev.some /\ last.prev.failed => last.queried

\* C2: a call of a key whose latest query ran less than TTL ago, with no
\* Force Refresh since, runs no query; a call of a key that was never
\* queried, whose latest query is TTL or more old, or that follows a Force
\* Refresh, runs the query.
C2_TtlAndRefresh ==
    last.kind = "call" =>
        LET served == last.prev.some /\ ~last.prev.cleared /\ last.at - last.prev.at < TTL
        IN last.queried = ~served

C2_Witness ==
    /\ last.kind = "call"
    /\ ~last.queried
    /\ last.at = last.prev.at + TickStep
    /\ \E k \in CacheKeys : queries[k].some /\ queries[k].cleared

(***************************************************************************)
(* Concurrent sessions.  A call of a cached function by a session is a     *)
(* lookup of the entry, then, on a miss, the query and the store of its    *)
(* result, each a step of its own, so that two sessions can refresh the    *)
(* same key at once.  The script then adds the column is_exit_norm to the  *)
(* frame it was handed, in place, and the run ends.                        *)
(***************************************************************************)
\* the stored object itself handed to the caller
HandOutShared(v) == [frame |-> v, shared |-> TRUE]

\* what a caller holds after a call: st.cache_data hands out a copy of the
\* stored value
HandOut(v) == [frame |-> v, shared |-> FALSE]

\* df["is_exit_norm"] = df["is_exit"].apply(normalize_exit_flag)
WithExitNorm(df) == [df EXCEPT !.columns = @ \cup {"is_exit_norm"}]

\* the calls the sessions make
SessionKeys ==
    { CallKey("fetch_trades", NoSymbol, Day(0), NoDay),
      CallKey("fetch_trades_range", NoSymbol, Day(0), Day(0)) }

InitSessions ==
    /\ InitCache

Begin(s, k) ==
    /\ sess[s].pc = "idle"
    /\ IF IsFresh(cache[k], now)
       THEN sess' = [sess EXCEPT ![s] =
                        [@ EXCEPT !.pc = "annotate", !.key = k,
                                  !.held = HandOut(cache[k].value),
                                  !.observed = [some |-> TRUE, frame |-> cache[k].value,
                                                queried |-> FALSE]]]
       ELSE sess' = [sess EXCEPT ![s] = [@ EXCEPT !.pc = "query", !.key = k]]
    /\ UNCHANGED <<flagVars, inputVars, dashVars, cacheVars, writes>>

RunQuery(s) ==
    /\ sess[s].pc = "query"
    /\ \E ok \in BOOLEAN :
          LET value == FetchBody(sess[s].key, ledger, schema, shadow_logs, ok)
          IN sess' = [sess EXCEPT ![s] =
                         [@ EXCEPT !.pc = "store", !.value = value, !.failed = ~ok]]
    /\ UNCHANGED <<flagVars, inputVars, dashVars, cacheVars, writes>>

StoreResult(s) ==
    /\ sess[s].pc = "store"
    /\ cache' = Store(cache, sess[s].key, sess[s].value, now)
    /\ writes' = [writes EXCEPT ![sess[s].key] =
                     [some |-> TRUE, value |-> sess[s].value]]
    /\ sess' = [sess EXCEPT ![s] =
                   [@ EXCEPT !.pc = "annotate",
                             !.held = HandOut(sess[s].value),
                             !.observed = [some |-> TRUE, frame |-> sess[s].value,
                                           queried |-> TRUE]]]
    /\ UNCHANGED <<flagVars, inputVars, dashVars, shadow_logs, now, last, queries>>

Annotate(s) ==
    /\ sess[s].pc = "annotate"
    /\ LET k == sess[s].key
           annotates == k.fn # "fetch_shadow" /\ ~IsEmpty(sess[s].held.frame)
       IN /\ sess' = [sess EXCEPT ![s] = SessionIdle]
          /\ cache' = IF annotates /\ sess[s].held.shared /\ cache[k].present
                         /\ cache[k].value = sess[s].held.frame
                      THEN [cache EXCEPT ![k].value = WithExitNorm(@)]
                      ELSE cache
    /\ UNCHANGED <<flagVars, inputVars, dashVars, shadow_logs, now, last, queries, writes>>

NextSessions ==
    \/ \E s \in Sessions, k \in SessionKeys : Begin(s, k)
    \/ \E s \in Sessions : RunQuery(s)
    \/ \E s \in Sessions : StoreResult(s)
    \/ \E s \in Sessions : Annotate(s)
    \/ ForceRefresh
    \/ Tick
    \/ AppendTrade

SpecSessions == InitSessions /\ [][NextSessions]_vars

\* the results a single run of the body of key k can have had: the ledger
\* only grows, so each is the fetch over a prefix of it, or the failure value
SingleFetchResults(k) ==
    { FetchBody(k, SubSeq(ledger, 1, n), schema, shadow_logs, ok) :
        n \in 0..Len(ledger), ok \in BOOLEAN }

====
